---- MODULE Spec2Model ----
(***************************************************************************)
(* Model of main.py: the QR payload decoder (parse_qr_payload), the        *)
(* SQLite-backed scan store (init_db, save_scan, fetch_latest_scans), the  *)
(* scan handler (on_scan_return) and the label generator                   *)
(* (generar_y_imprimir_qrs).                                               *)
(*                                                                         *)
(* Text is modelled as a sequence of one-character strings, so that        *)
(* strip, split, lower, int() and the f-string formatting are computed     *)
(* character by character, as the Python code computes them.               *)
(***************************************************************************)
EXTENDS Integers, Sequences, FiniteSets, TLC

(***************************************************************************)
(* Python str helpers                                                      *)
(***************************************************************************)

\* characters removed by str.strip() that occur in the modelled inputs
WS == {" ", "\t", "\n", "\r"}

\* characters at which str.splitlines() breaks a line
LineBreaks == {"\n", "\r"}

DigitChars == <<"0", "1", "2", "3", "4", "5", "6", "7", "8", "9">>

IsDigit(c) == \E i \in 1..10 : DigitChars[i] = c

DigitVal(c) == (CHOOSE i \in 1..10 : DigitChars[i] = c) - 1

UpperChars == <<"A","B","C","D","E","F","G","H","I","J","K","L","M","N","O","P","Q","R","S","T","U","V","W","X","Y","Z","Ó","É">>

LowerChars == <<"a","b","c","d","e","f","g","h","i","j","k","l","m","n","o","p","q","r","s","t","u","v","w","x","y","z","ó","é">>

\* str.lower() on one character
LowerChar(c) ==
    IF \E i \in 1..Len(UpperChars) : UpperChars[i] = c
    THEN LowerChars[CHOOSE i \in 1..Len(UpperChars) : UpperChars[i] = c]
    ELSE c

Lower(s) == [i \in 1..Len(s) |-> LowerChar(s[i])]

RECURSIVE LStrip(_)
LStrip(s) == IF s # <<>> /\ Head(s) \in WS THEN LStrip(Tail(s)) ELSE s

RECURSIVE RStrip(_)
RStrip(s) ==
    IF s # <<>> /\ s[Len(s)] \in WS THEN RStrip(SubSeq(s, 1, Len(s) - 1)) ELSE s

\* str.strip()
Strip(s) == RStrip(LStrip(s))

\* c in s
Contains(s, c) == \E i \in 1..Len(s) : s[i] = c

\* index of the first occurrence of c in s (0 when absent)
IndexOf(s, c) ==
    IF Contains(s, c) THEN CHOOSE i \in 1..Len(s) : s[i] = c /\ \A j \in 1..(i-1) : s[j] # c
    ELSE 0

\* s.split(c): always at least one segment
RECURSIVE Split(_, _)
Split(s, c) ==
    LET i == IndexOf(s, c)
    IN IF i = 0 THEN <<s>>
       ELSE <<SubSeq(s, 1, i - 1)>> \o Split(SubSeq(s, i + 1, Len(s)), c)

\* s.split(c, 1)
SplitOnce(s, c) ==
    LET i == IndexOf(s, c)
    IN IF i = 0 THEN <<s>>
       ELSE <<SubSeq(s, 1, i - 1), SubSeq(s, i + 1, Len(s))>>

\* s.startswith(prefix)
StartsWith(s, prefix) ==
    Len(s) >= Len(prefix) /\ SubSeq(s, 1, Len(prefix)) = prefix

\* s.replace(a, b) for single characters
Replace(s, a, b) == [i \in 1..Len(s) |-> IF s[i] = a THEN b ELSE s[i]]

\* s.splitlines(): "\r\n" is one break, a trailing break adds no empty line
RECURSIVE SplitLines(_)
SplitLines(s) ==
    IF s = <<>> THEN <<>>
    ELSE IF \E i \in 1..Len(s) : s[i] \in LineBreaks
    THEN LET i == CHOOSE k \in 1..Len(s) :
                      s[k] \in LineBreaks /\ \A j \in 1..(k-1) : s[j] \notin LineBreaks
             skip == IF s[i] = "\r" /\ i < Len(s) /\ s[i+1] = "\n" THEN i + 2 ELSE i + 1
         IN <<SubSeq(s, 1, i - 1)>> \o SplitLines(SubSeq(s, skip, Len(s)))
    ELSE <<s>>

Range(s) == {s[i] : i \in 1..Len(s)}

(***************************************************************************)
(* int(text) and the integer formatting of f-strings                       *)
(***************************************************************************)

\* digits with single underscores between them, as int() accepts
IsDecimalBody(s) ==
    /\ s # <<>>
    /\ \A i \in 1..Len(s) : IsDigit(s[i]) \/ s[i] = "_"
    /\ IsDigit(s[1]) /\ IsDigit(s[Len(s)])
    /\ \A i \in 1..(Len(s) - 1) : ~(s[i] = "_" /\ s[i+1] = "_")

RECURSIVE DecimalValue(_)
DecimalValue(s) ==
    IF s = <<>> THEN 0
    ELSE IF s[Len(s)] = "_" THEN DecimalValue(SubSeq(s, 1, Len(s) - 1))
    ELSE 10 * DecimalValue(SubSeq(s, 1, Len(s) - 1)) + DigitVal(s[Len(s)])

IntBody(s) ==
    LET t == Strip(s)
    IN IF t # <<>> /\ t[1] \in {"+", "-"} THEN Tail(t) ELSE t

\* int(s) succeeds
IntOk(s) == IsDecimalBody(IntBody(s))

\* the value of int(s) when it succeeds
IntValue(s) ==
    LET t == Strip(s)
        v == DecimalValue(IntBody(s))
    IN IF t # <<>> /\ t[1] = "-" THEN 0 - v ELSE v

RECURSIVE NatText(_)
NatText(n) ==
    IF n < 10 THEN <<DigitChars[n + 1]>>
    ELSE NatText(n \div 10) \o <<DigitChars[(n % 10) + 1]>>

RECURSIVE ZeroPad(_, _)
ZeroPad(s, width) == IF Len(s) >= width THEN s ELSE ZeroPad(<<"0">> \o s, width)

\* f"{n:0{width}d}": the sign counts towards the width
IntTextPadded(n, width) ==
    IF n < 0 THEN <<"-">> \o ZeroPad(NatText(0 - n), width - 1)
    ELSE ZeroPad(NatText(n), width)

(***************************************************************************)
(* parse_qr_payload                                                        *)
(***************************************************************************)

kNS  == <<"N","S">>
kPRD == <<"P","R","D">>
kDSC == <<"D","S","C">>
kLOT == <<"L","O","T">>
kFEC == <<"F","E","C">>
kVTO == <<"V","T","O">>

\* required = ["NS", "PRD", "DSC", "LOT", "FEC", "VTO"]
required == <<kNS, kPRD, kDSC, kLOT, kFEC, kVTO>>

\* the dict returned by parse_qr_payload
ScanData(desc, ns, prd, lote, cre, vto) ==
    [descripcion |-> desc, nro_serie |-> ns, id_producto |-> prd,
     lote |-> lote, creacion |-> cre, vencimiento |-> vto]

NoData == ScanData(<<>>, 0, <<>>, <<>>, <<>>, <<>>)

\* outcome of the decoder: the dict, or the exception it raises
Decoded(d) == [kind |-> "OK", data |-> d, missing |-> <<>>]

Failure(k, m) == [kind |-> k, data |-> NoData, missing |-> m]

\* variant: the n-th segment is taken as the value of the n-th required key
RECURSIVE BuildDataByPosition(_, _)
BuildDataByPosition(parts, data) ==
    IF parts = <<>> THEN data
    ELSE LET p == Head(parts)
             n == Cardinality(DOMAIN data) + 1
         IN IF Contains(p, "=") /\ n <= Len(required)
            THEN LET kv == SplitOnce(p, "=")
                     k == required[n]
                     v == Strip(kv[2])
                 IN BuildDataByPosition(Tail(parts),
                              [x \in (DOMAIN data) \cup {k} |-> IF x = k THEN v ELSE data[x]])
            ELSE BuildDataByPosition(Tail(parts), data)

\* the loop that fills data: later segments overwrite earlier ones
RECURSIVE BuildData(_, _)
BuildData(parts, data) ==
    IF parts = <<>> THEN data
    ELSE LET p == Head(parts)
         IN IF Contains(p, "=")
            THEN LET kv == SplitOnce(p, "=")
                     k == Strip(kv[1])
                     v == Strip(kv[2])
                 IN BuildData(Tail(parts),
                              [x \in (DOMAIN data) \cup {k} |-> IF x = k THEN v ELSE data[x]])
            ELSE BuildData(Tail(parts), data)

\* variant: missing = [k for k in required if k not in data]
RECURSIVE MissingKeysAbsentOnly(_, _)
MissingKeysAbsentOnly(keys, data) ==
    IF keys = <<>> THEN <<>>
    ELSE (IF Head(keys) \notin DOMAIN data
          THEN <<Head(keys)>> ELSE <<>>) \o MissingKeysAbsentOnly(Tail(keys), data)

\* missing = [k for k in required if k not in data or not data[k]]
RECURSIVE MissingKeys(_, _)
MissingKeys(keys, data) ==
    IF keys = <<>> THEN <<>>
    ELSE (IF Head(keys) \notin DOMAIN data \/ data[Head(keys)] = <<>>
          THEN <<Head(keys)>> ELSE <<>>) \o MissingKeys(Tail(keys), data)

\* branch 1 of parse_qr_payload: K=V segments separated by "|"
ParsePrimary(raw) ==
    LET data == BuildData(Split(raw, "|"), <<>>)
        missing == MissingKeys(required, data)
    IN IF missing # <<>> THEN Failure("MissingFields", missing)
       ELSE IF ~IntOk(data[kNS]) THEN Failure("InvalidSerial", <<>>)
       ELSE Decoded(ScanData(data[kDSC], IntValue(data[kNS]), data[kPRD],
                             data[kLOT], data[kFEC], data[kVTO]))

\* lines = [l.strip() for l in raw.splitlines() if l.strip()]
RECURSIVE StrippedLines(_)
StrippedLines(ls) ==
    IF ls = <<>> THEN <<>>
    ELSE (IF Strip(Head(ls)) # <<>> THEN <<Strip(Head(ls))>> ELSE <<>>)
         \o StrippedLines(Tail(ls))

pNumDeSerie == <<"N","u","m"," ","d","e"," ","s","e","r","i","e">>
pNDeSerie == <<"N"," ","d","e"," ","s","e","r","i","e">>
pNGradoDeSerie == <<"N","°"," ","d","e"," ","s","e","r","i","e">>
pIDProducto == <<"I","D"," ","p","r","o","d","u","c","t","o">>
pLote == <<"L","o","t","e">>
pCreacion == <<"C","r","e","a","c","i","o","n">>
pCreacionAcento == <<"C","r","e","a","c","i","ó","n">>
pVencimiento == <<"V","e","n","c","i","m","i","e","n","t","o">>

\* known_prefixes
known_prefixes ==
    {Lower(pNumDeSerie), Lower(pNDeSerie), Lower(pNGradoDeSerie), Lower(pIDProducto),
     Lower(pLote), Lower(pCreacion), Lower(pCreacionAcento), Lower(pVencimiento)}

\* pick(prefix): found = a line matched; err = l.split(":", 1)[1] raised IndexError
RECURSIVE pick(_, _)
pick(lines, prefix) ==
    IF lines = <<>> THEN [found |-> FALSE, err |-> FALSE, val |-> <<>>]
    ELSE IF StartsWith(Lower(Head(lines)), Lower(prefix))
    THEN LET sp == SplitOnce(Head(lines), ":")
         IN IF Len(sp) < 2 THEN [found |-> TRUE, err |-> TRUE, val |-> <<>>]
            ELSE [found |-> TRUE, err |-> FALSE, val |-> Strip(sp[2])]
    ELSE pick(Tail(lines), prefix)

\* truthiness of a pick() result: None and "" are falsy
Truthy(r) == r.found /\ ~r.err /\ r.val # <<>>

\* pick(a) or pick(b) or ...: stops at the first truthy value, and at the
\* first call that raises
RECURSIVE PickOr(_, _)
PickOr(lines, prefixes) ==
    LET r == pick(lines, Head(prefixes))
    IN IF r.err \/ Truthy(r) \/ Len(prefixes) = 1 THEN r
       ELSE PickOr(lines, Tail(prefixes))

RECURSIVE DescCandidates(_)
DescCandidates(lines) ==
    IF lines = <<>> THEN <<>>
    ELSE (IF \E k \in known_prefixes : StartsWith(Lower(Head(lines)), k)
          THEN <<>> ELSE <<Head(lines)>>) \o DescCandidates(Tail(lines))

IsLeap(y) == y % 4 = 0 /\ (y % 100 # 0 \/ y % 400 = 0)

DaysInMonth(y, m) ==
    IF m = 2 THEN (IF IsLeap(y) THEN 29 ELSE 28)
    ELSE IF m \in {4, 6, 9, 11} THEN 30 ELSE 31

AllDigits(s) == \A i \in 1..Len(s) : IsDigit(s[i])

\* datetime.strptime(s, "%d/%m/%y") succeeds
StrptimeOk(s) ==
    LET f == Split(s, "/")
    IN /\ Len(f) = 3
       /\ Len(f[1]) \in {1, 2} /\ AllDigits(f[1])
       /\ Len(f[2]) \in {1, 2} /\ AllDigits(f[2])
       /\ Len(f[3]) = 2 /\ AllDigits(f[3])
       /\ (Len(f[1]) = 1 => f[1][1] # "0")
       /\ (Len(f[2]) = 1 => f[2][1] # "0")
       /\ DecimalValue(f[2]) \in 1..12
       /\ LET y == DecimalValue(f[3])
              year == IF y < 69 THEN 2000 + y ELSE 1900 + y
          IN DecimalValue(f[1]) \in 1..DaysInMonth(year, DecimalValue(f[2]))

\* date.isoformat()
IsoFormat(year, m, d) ==
    ZeroPad(NatText(year), 4) \o <<"-">> \o ZeroPad(NatText(m), 2) \o <<"-">> \o ZeroPad(NatText(d), 2)

normalize_date(s0) ==
    LET s == Strip(s0)
    IN IF Contains(s, "/") /\ StrptimeOk(s)
       THEN LET f == Split(s, "/")
                y == DecimalValue(f[3])
            IN IsoFormat(IF y < 69 THEN 2000 + y ELSE 1900 + y,
                         DecimalValue(f[2]), DecimalValue(f[1]))
       ELSE s

\* branch 2 of parse_qr_payload: the old multi-line label text
ParseLegacy(raw) ==
    LET lines == StrippedLines(SplitLines(raw))
        ns == PickOr(lines, <<pNumDeSerie, pNDeSerie, pNGradoDeSerie>>)
        prd == pick(lines, pIDProducto)
        lote == pick(lines, pLote)
        cre == PickOr(lines, <<pCreacion, pCreacionAcento>>)
        vto == pick(lines, pVencimiento)
        cands == DescCandidates(lines)
        desc == IF cands # <<>> THEN cands[1] ELSE <<>>
    IN IF ns.err \/ prd.err \/ lote.err \/ cre.err \/ vto.err
       THEN Failure("IndexError", <<>>)
       ELSE IF ~(Truthy(ns) /\ Truthy(prd) /\ Truthy(lote) /\ Truthy(cre) /\ Truthy(vto))
               \/ desc = <<>>
       THEN Failure("LegacyFieldsMissing", <<>>)
       ELSE IF ~IntOk(ns.val) THEN Failure("InvalidSerial", <<>>)
       ELSE Decoded(ScanData(desc, IntValue(ns.val), prd.val, lote.val,
                             normalize_date(cre.val), normalize_date(vto.val)))

\* variant: "|" or "=" is enough for the key=value format
parse_qr_payload_either(raw0) ==
    LET raw == Strip(raw0)
    IN IF Contains(raw, "|") \/ Contains(raw, "=") THEN ParsePrimary(raw)
       ELSE IF Contains(raw, "\n") THEN ParseLegacy(raw)
       ELSE Failure("UnrecognizedFormat", <<>>)

parse_qr_payload(raw0) ==
    LET raw == Strip(raw0)
    IN IF Contains(raw, "|") /\ Contains(raw, "=") THEN ParsePrimary(raw)
       ELSE IF Contains(raw, "\n") THEN ParseLegacy(raw)
       ELSE Failure("UnrecognizedFormat", <<>>)

(***************************************************************************)
(* generar_y_imprimir_qrs: the payload written into each QR label          *)
(***************************************************************************)

\* desc_clean is cut to this many characters
MaxDescLen == 90

\* NS is written as {nro_serie:06d}
SerialWidth == 6

RECURSIVE JoinWith(_, _)
JoinWith(segs, c) ==
    IF segs = <<>> THEN <<>>
    ELSE IF Len(segs) = 1 THEN segs[1]
    ELSE segs[1] \o <<c>> \o JoinWith(Tail(segs), c)

Seg(k, v) == k \o <<"=">> \o v

\* str(descripcion).replace("\n", " ").replace("|", "/").replace("=", "-").strip(),
\* then cut to 90 characters
DescClean(descripcion) ==
    LET c == Strip(Replace(Replace(Replace(descripcion, "\n", " "), "|", "/"), "=", "-"))
    IN IF Len(c) > MaxDescLen THEN SubSeq(c, 1, MaxDescLen) ELSE c

\* payload_qr
payload_qr(nro_serie, id_producto, desc_clean, numero_lote, fec_iso, vto_iso) ==
    JoinWith(<<Seg(kNS, IntTextPadded(nro_serie, SerialWidth)), Seg(kPRD, id_producto),
               Seg(kDSC, desc_clean), Seg(kLOT, numero_lote),
               Seg(kFEC, fec_iso), Seg(kVTO, vto_iso)>>, "|")

\* fecha_actual + relativedelta(months=6): the day is clipped to the month's end
PlusSixMonths(dt) ==
    LET m0 == dt[2] + 6
        y == IF m0 > 12 THEN dt[1] + 1 ELSE dt[1]
        m == IF m0 > 12 THEN m0 - 12 ELSE m0
        d == IF dt[3] > DaysInMonth(y, m) THEN DaysInMonth(y, m) ELSE dt[3]
    IN <<y, m, d>>

\* strftime("%Y-%m-%d")
FecIso(dt) == IsoFormat(dt[1], dt[2], dt[3])

\* strftime("%d%m%y")
NumeroLote(dt) ==
    ZeroPad(NatText(dt[3]), 2) \o ZeroPad(NatText(dt[2]), 2) \o ZeroPad(NatText(dt[1] % 100), 2)

(***************************************************************************)
(* Inputs                                                                  *)
(***************************************************************************)

tBolsa == <<"B","o","l","s","a"," ","5","k","g">>
tOtra == <<"O","t","r","a">>
tLote == <<"0","9","0","2","2","6">>
tFec == <<"2","0","2","6","-","0","2","-","0","9">>
tVto == <<"2","0","2","6","-","0","8","-","0","9">>

Primary(ns, prd, dsc, lot, fec, vto) ==
    JoinWith(<<Seg(kNS, ns), Seg(kPRD, prd), Seg(kDSC, dsc), Seg(kLOT, lot),
               Seg(kFEC, fec), Seg(kVTO, vto)>>, "|")

\* NS=000001|PRD=12|DSC=Bolsa 5kg|LOT=090226|FEC=2026-02-09|VTO=2026-08-09
inFirst == Primary(<<"0","0","0","0","0","1">>, <<"1","2">>, tBolsa, tLote, tFec, tVto)

\* the same label triple, written with another serial text, description and dates
inSameKey == Primary(<<"1">>, <<"1","2">>, tOtra, tLote, <<"2","0","2","6","-","0","3","-","0","1">>, <<"2","0","2","6","-","0","9","-","0","1">>)

inSecond == Primary(<<"0","0","0","0","0","2">>, <<"1","2">>, tBolsa, tLote, tFec, tVto)

\* PRD=012: another product text
inOtherPrd == Primary(<<"0","0","0","0","0","1">>, <<"0","1","2">>, tBolsa, tLote, tFec, tVto)

\* NS=-5
inNegative == Primary(<<"-","5">>, <<"1","2">>, tBolsa, tLote, tFec, tVto)

\* VTO is absent
inNoVto ==
    JoinWith(<<Seg(kNS, <<"3">>), Seg(kPRD, <<"1","2">>), Seg(kDSC, tBolsa),
               Seg(kLOT, tLote), Seg(kFEC, tFec)>>, "|")

\* NS=abc
inBadSerial == Primary(<<"a","b","c">>, <<"1","2">>, tBolsa, tLote, tFec, tVto)

\* the old label text, one field per line
inLegacy ==
    JoinWith(<<<<"D","e","t","e","r","g","e","n","t","e"," ","X">>,
               <<"N","°"," ","d","e"," ","s","e","r","i","e",":"," ","0","0","0","0","0","2">>,
               <<"I","D"," ","p","r","o","d","u","c","t","o",":"," ","7">>,
               <<"L","o","t","e",":"," ","1","0","0","1","2","5">>,
               <<"C","r","e","a","c","i","ó","n",":"," ","1","0","/","0","1","/","2","5">>,
               <<"V","e","n","c","i","m","i","e","n","t","o",":"," ","1","0","/","0","7","/","2","5">>>>, "\n")

\* the old label text with a "Lote" line that has no ":"
inLegacyNoColon ==
    JoinWith(<<<<"D","e","t","e","r","g","e","n","t","e"," ","X">>,
               <<"N","°"," ","d","e"," ","s","e","r","i","e",":"," ","0","0","0","0","0","2">>,
               <<"I","D"," ","p","r","o","d","u","c","t","o",":"," ","7">>,
               <<"L","o","t","e"," ","1","0","0","1","2","5">>,
               <<"C","r","e","a","c","i","ó","n",":"," ","1","0","/","0","1","/","2","5">>,
               <<"V","e","n","c","i","m","i","e","n","t","o",":"," ","1","0","/","0","7","/","2","5">>>>, "\n")

inGarbage == <<"h","e","l","l","o">>

inBlank == <<" ", " ">>

\* what the scanner types into the entry field
ScanInputs == {inFirst, inSameKey, inSecond, inNegative, inNoVto, inBlank}

\* what each scanner types when several program instances share the database file
ConcInputs(p) == IF p = "p1" THEN {inFirst, inSecond} ELSE {inSameKey, inSecond}

\* labels that differ only in how NS or PRD is written
IdentityInputs == {inFirst, inSameKey, inOtherPrd}

\* parse_qr_payload of each scanner input, computed once
Parsed == [r \in ScanInputs \cup IdentityInputs |-> parse_qr_payload(r)]

\* a segment of a generated payload: absent, or KEY=v
Absent == [has |-> FALSE, v |-> <<>>]

Val(v) == [has |-> TRUE, v |-> v]

OptNS == {Absent, Val(<<>>), Val(<<"0","0","0","0","0","1">>), Val(<<"-","5">>), Val(<<"a","b","c">>), Val(<<" ","7"," ">>)}

OptPRD == {Absent, Val(<<"1","2">>), Val(<<" ">>)}

OptDSC == {Absent, Val(tBolsa)}

OptLOT == {Absent, Val(tLote)}

OptFEC == {Absent, Val(tFec)}

OptVTO == {Val(<<>>), Val(tVto)}

\* orders in which the six segments are written
Orders == {<<1, 2, 3, 4, 5, 6>>, <<6, 5, 4, 3, 2, 1>>, <<3, 1, 6, 2, 5, 4>>}

RECURSIVE PresentSegs(_, _)
PresentSegs(opts, order) ==
    IF order = <<>> THEN <<>>
    ELSE (IF opts[Head(order)].has
          THEN <<Seg(required[Head(order)], opts[Head(order)].v)>> ELSE <<>>)
         \o PresentSegs(opts, Tail(order))

\* how a key=value text is put together: what each key gets, and the order
PrimarySources ==
    {[opts |-> <<a, b, c, d, e, f>>, order |-> o] :
        a \in OptNS, b \in OptPRD, c \in OptDSC, d \in OptLOT, e \in OptFEC,
        f \in OptVTO, o \in Orders}

\* marks a text that was not put together from segments
NoSource == [opts |-> <<Absent, Absent, Absent, Absent, Absent, Absent>>, order |-> <<>>]

PrimaryText(src) == JoinWith(PresentSegs(src.opts, src.order), "|")

PrimaryInputs == {PrimaryText(src) : src \in PrimarySources}

\* lines of the old label text; <<>> leaves the line out
LineDesc == {<<>>, <<"D","e","t","e","r","g","e","n","t","e"," ","X">>}

LineSerial == {<<>>, <<"N","°"," ","d","e"," ","s","e","r","i","e",":"," ","0","0","0","0","0","2">>, <<"N","U","M"," ","D","E"," ","S","E","R","I","E",":"," ","x">>, <<"N"," ","d","e"," ","s","e","r","i","e"," ","5">>}

LinePrd == {<<>>, <<"I","D"," ","p","r","o","d","u","c","t","o",":"," ","7">>}

LineLote == {<<>>, <<"L","o","t","e",":"," ","1","0","0","1","2","5">>, <<"L","o","t","e"," ","1","0","0","1","2","5">>, <<"L","o","t","e",":">>}

LineCre == {<<>>, <<"C","r","e","a","c","i","ó","n",":"," ","1","0","/","0","1","/","2","5">>, <<"c","r","e","a","c","i","o","n",":"," ","2","0","2","5","-","0","1","-","1","0">>}

LineVto == {<<"V","e","n","c","i","m","i","e","n","t","o",":"," ","1","0","/","0","7","/","2","5">>, <<"V","e","n","c","i","m","i","e","n","t","o",":"," ","3","1","/","0","2","/","2","5">>}

LegacyInputs ==
    {JoinWith(<<a, b, c, d, e, f>>, "\n") :
        a \in LineDesc, b \in LineSerial, c \in LinePrd, d \in LineLote,
        e \in LineCre, f \in LineVto}

\* texts with a line break and at most one of "|" and "=", the line break
\* inside the text or only at its ends
NewlineInputs ==
    {<<"h","e","l","l","o","\n">>, <<"\n","h","e","l","l","o">>,
     <<"a","|","b","\n","c">>, <<"a","=","b","\n","c">>,
     <<"N","S","=","1","\n">>, <<"a","|","b","\n">>, <<"\n">>}

\* texts that are not put together from PrimarySources
OtherInputs ==
    LegacyInputs \cup ScanInputs \cup NewlineInputs
        \cup {inOtherPrd, inBadSerial, inLegacy, inLegacyNoColon, inGarbage, <<>>}

\* texts given to parse_qr_payload
DecodeInputs == PrimaryInputs \cup OtherInputs

\* rows of productos.xlsx: id_producto, descripcion
Products ==
    <<[id |-> <<"1","2">>, descripcion |-> tBolsa],
      [id |-> <<"7">>, descripcion |-> <<"J","a","b","o","n","\n","1","|","2","=","3"," ">>],
      [id |-> <<"3">>, descripcion |-> [i \in 1..92 |-> IF i = 90 THEN " " ELSE "a"]],
      [id |-> <<"4">>, descripcion |-> [i \in 1..95 |-> "b"]]>>

\* values of datetime.now(): year, month, day
Dates == {<<2026, 2, 9>>, <<2025, 8, 31>>}

\* largest cantidad entered in the form
MaxCantidad == 2

\* generation stops when a counter would pass this value
MaxSerial == 3

(***************************************************************************)
(* State                                                                   *)
(***************************************************************************)

\* program instances that open talca_qr.db; MainProc is the program of main.py
Procs == {"p1", "p2"}

MainProc == "p1"

NoProc == "none"

\* snapshot marker of a connection that holds no read snapshot
NoSnap == -1

\* refresh_table(limit=300)
DefaultLimit == 300

\* limits passed to fetch_latest_scans: the default of refresh_table, and small
\* ones so that LIMIT cuts the result with the few rows the inputs can produce
Limits == {1, 2, DefaultLimit}

VARIABLES
    disk,      \* committed rows of pallet_scans, in rowid order
    lock,      \* the connection holding SQLite's write lock, or NoProc
    pend,      \* pend[p]: rows written by p's open transaction, not committed
    inTxn,     \* inTxn[p]: conn.in_transaction
    snap,      \* snap[p]: number of committed rows p's open transaction sees
    conn,      \* conn[p]: "open" since init_db() until conn_db.close() made it "closed"
    pc,        \* pc[p]: where p is in on_scan_return ("down": not running)
    cur,       \* cur[p]: the submission being handled
    status,    \* status[p]: outcome shown in status_var by the last handler
    rows,      \* rows[p]: p's last fetch_latest_scans: its limit and the rows it got
    acked,     \* records for which "OK" was reported, in order
    outcomes,  \* outcomes[p]: messages shown for p's last submission, or NoEvent
    okRaw,     \* the texts for which "OK" was reported
    ultimo,    \* ultimo[i]: ultimo_nro_serie of product i in productos.xlsx
    labels,    \* labels written by the last run of generar_y_imprimir_qrs
    issued,    \* issued[i][s]: PDFs saved with serial s of product i: 0, 1, or 2 for more
    decSrc,    \* how decRaw was put together, or NoSource
    decRaw,    \* a text handed to parse_qr_payload
    decOut     \* what parse_qr_payload made of decRaw

storeVars == <<disk, lock, pend, inTxn, snap, conn>>

uiVars == <<pc, cur, status, rows, acked, outcomes, okRaw>>

genVars == <<ultimo, labels, issued>>

decVars == <<decSrc, decRaw, decOut>>

vars ==
    <<disk, lock, pend, inTxn, snap, conn, pc, cur, status, rows, acked, outcomes,
      okRaw, ultimo, labels, issued, decSrc, decRaw, decOut>>

\* variant: id_producto INTEGER, so that "012" and "12" are one product
KeyNumericProduct(d) ==
    <<IF IntOk(d.id_producto) THEN NatText(IntValue(d.id_producto)) ELSE d.id_producto,
      d.nro_serie, d.lote>>

\* UNIQUE(id_producto, nro_serie, lote)
Key(d) == <<d.id_producto, d.nro_serie, d.lote>>

NoKey == Key(NoData)

Keys(rs) == {Key(rs[i]) : i \in 1..Len(rs)}

\* status: state is "READY", "OK", "DUP" or "ERROR"; key is the label triple of
\* the message; n0 and n1 are the row counts when the handler began and ended;
\* fresh: the triple was not stored when the handler began; again: the
\* submission came right after an "OK" for the same triple, which began with
\* base rows
Outcome(state, kind, key, n0, n1, fresh, again, base) ==
    [state |-> state, kind |-> kind, key |-> key, n0 |-> n0, n1 |-> n1,
     fresh |-> fresh, again |-> again, base |-> base]

Ready == Outcome("READY", "", NoKey, 0, 0, FALSE, FALSE, 0)

NoJob ==
    [raw |-> <<>>, data |-> NoData, res |-> "", n0 |-> 0, fresh |-> FALSE,
     again |-> FALSE, base |-> 0]

\* no Return key has been handled since the window was built
NoEvent == -1

\* the process is not running: killed, ended by on_close, or ended by an
\* exception while the module was starting
Stopped == {"down", "exited", "failed"}

\* the rows connection p reads: its snapshot of the committed rows plus its own writes
Visible(p) ==
    (IF snap[p] = NoSnap THEN disk ELSE SubSeq(disk, 1, snap[p])) \o pend[p]

\* variant: ORDER BY rowid ASC
fetch_oldest_first(p, limit) ==
    LET v == Visible(p)
        n == IF limit < Len(v) THEN limit ELSE Len(v)
    IN SubSeq(v, 1, n)

\* SELECT ... ORDER BY rowid DESC LIMIT ?
fetch_latest_scans(p, limit) ==
    LET v == Visible(p)
        n == IF limit < Len(v) THEN limit ELSE Len(v)
    IN [i \in 1..n |-> v[Len(v) + 1 - i]]

\* what refresh_table(limit) gets from fetch_latest_scans
Fetched(p, limit) == [limit |-> limit, recs |-> fetch_latest_scans(p, limit)]

\* the table of the "Registros" tab before the first query
NoRows == [limit |-> DefaultLimit, recs |-> <<>>]

\* a read inside an open transaction pins the snapshot until the transaction ends
SnapAfterRead(p) ==
    IF inTxn[p] /\ snap[p] = NoSnap THEN Len(disk) ELSE snap[p]

NotDecoded == Failure("", <<>>)

InitStore ==
    /\ disk = <<>>
    /\ lock = NoProc
    /\ pend = [p \in Procs |-> <<>>]
    /\ inTxn = [p \in Procs |-> FALSE]
    /\ snap = [p \in Procs |-> NoSnap]
    /\ conn = [p \in Procs |-> "open"]
    /\ pc = [p \in Procs |-> "idle"]
    /\ cur = [p \in Procs |-> NoJob]
    /\ status = [p \in Procs |-> Ready]
    /\ rows = [p \in Procs |-> NoRows]
    /\ acked = <<>>
    /\ outcomes = [p \in Procs |-> NoEvent]
    /\ okRaw = {}

InitGen ==
    /\ ultimo = [i \in 1..Len(Products) |-> 0]
    /\ labels = <<>>
    /\ issued = [i \in 1..Len(Products) |-> [s \in 1..MaxSerial |-> 0]]

Init ==
    /\ InitStore
    /\ InitGen
    /\ decSrc = NoSource
    /\ decRaw = <<>>
    /\ decOut = NotDecoded

(***************************************************************************)
(* on_scan_return, save_scan, refresh_table                                *)
(***************************************************************************)

\* the except branch of on_scan_return: status_var.set("ERROR: ...")
ShowError(p, kind) ==
    status' = [status EXCEPT ![p] =
                 Outcome("ERROR", kind, Key(cur[p].data), cur[p].n0, Len(disk),
                         cur[p].fresh, cur[p].again, cur[p].base)]

\* variant: refresh_table() is also called when save_scan raised
ScanRefreshOnError(p, r) ==
    /\ pc[p] = "idle"
    /\ LET raw == Strip(r)
           d == Parsed[r]
       IN IF raw = <<>>
          THEN /\ outcomes' = [outcomes EXCEPT ![p] = 0]
               /\ UNCHANGED <<storeVars, pc, cur, status, rows, acked, okRaw, genVars,
                              decVars>>
          ELSE IF d.kind # "OK"
          THEN /\ status' = [status EXCEPT ![p] =
                               Outcome("ERROR", d.kind, NoKey, Len(disk), Len(disk),
                                       FALSE, FALSE, 0)]
               /\ outcomes' = [outcomes EXCEPT ![p] = 1]
               /\ rows' = [rows EXCEPT ![p] = Fetched(p, DefaultLimit)]
               /\ UNCHANGED <<storeVars, pc, cur, acked, okRaw, genVars, decVars>>
          ELSE /\ pc' = [pc EXCEPT ![p] = "insert"]
               /\ outcomes' = [outcomes EXCEPT ![p] = 0]
               /\ cur' = [cur EXCEPT ![p] =
                            [raw |-> r, data |-> d.data, res |-> "", n0 |-> Len(disk),
                             fresh |-> Key(d.data) \notin Keys(disk),
                             again |-> status[p].state = "OK" /\ status[p].key = Key(d.data),
                             base |-> IF status[p].state = "OK" /\ status[p].key = Key(d.data)
                                      THEN status[p].n0 ELSE 0]]
               /\ UNCHANGED <<storeVars, status, rows, acked, okRaw, genVars, decVars>>

\* on_scan_return up to the INSERT: strip, the empty check, parse_qr_payload
Scan(p, r) ==
    /\ pc[p] = "idle"
    /\ LET raw == Strip(r)
           d == Parsed[r]
       IN IF raw = <<>>
          THEN \* if not raw: return
               /\ outcomes' = [outcomes EXCEPT ![p] = 0]
               /\ UNCHANGED <<storeVars, pc, cur, status, rows, acked, okRaw, genVars,
                              decVars>>
          ELSE IF d.kind # "OK"
          THEN /\ status' = [status EXCEPT ![p] =
                               Outcome("ERROR", d.kind, NoKey, Len(disk), Len(disk),
                                       FALSE, FALSE, 0)]
               /\ outcomes' = [outcomes EXCEPT ![p] = 1]
               /\ UNCHANGED <<storeVars, pc, cur, rows, acked, okRaw, genVars, decVars>>
          ELSE /\ pc' = [pc EXCEPT ![p] = "insert"]
               /\ outcomes' = [outcomes EXCEPT ![p] = 0]
               /\ cur' = [cur EXCEPT ![p] =
                            [raw |-> r, data |-> d.data, res |-> "", n0 |-> Len(disk),
                             fresh |-> Key(d.data) \notin Keys(disk),
                             again |-> status[p].state = "OK" /\ status[p].key = Key(d.data),
                             base |-> IF status[p].state = "OK" /\ status[p].key = Key(d.data)
                                      THEN status[p].n0 ELSE 0]]
               /\ UNCHANGED <<storeVars, status, rows, acked, okRaw, genVars, decVars>>

\* variant: the check and the write are not under one write lock
WriteLockIgnored(p) == TRUE

\* the write lock can be taken by p: nobody else holds it, and p's snapshot,
\* if it has one, is the latest committed state
WriteLockFree(p) ==
    /\ lock \in {NoProc, p}
    /\ snap[p] \in {NoSnap, Len(disk)}

\* variant: the index covers descripcion and the dates as well
UniqueViolationAllColumns(p, d) == d \in Range(Visible(p))

\* variant: the table has no UNIQUE index
NoUniqueIndex(p, d) == FALSE

\* the UNIQUE(id_producto, nro_serie, lote) index rejects row d
UniqueViolation(p, d) == Key(d) \in Keys(Visible(p))

\* variant: save_scan catches sqlite3.Error and returns "DUP"
InsertAnyErrorIsDup(p) ==
    /\ pc[p] = "insert"
    /\ inTxn' = [inTxn EXCEPT ![p] = TRUE]
    /\ IF ~WriteLockFree(p)
       THEN /\ cur' = [cur EXCEPT ![p].res = "DUP"]
            /\ pc' = [pc EXCEPT ![p] = "ack"]
            /\ UNCHANGED <<disk, lock, pend, snap, conn, status, rows, acked, outcomes,
                           okRaw, genVars, decVars>>
       ELSE /\ lock' = p
            /\ snap' = [snap EXCEPT ![p] = Len(disk)]
            /\ IF UniqueViolation(p, cur[p].data)
               THEN /\ cur' = [cur EXCEPT ![p].res = "DUP"]
                    /\ pc' = [pc EXCEPT ![p] = "ack"]
                    /\ UNCHANGED pend
               ELSE /\ pend' = [pend EXCEPT ![p] = Append(pend[p], cur[p].data)]
                    /\ pc' = [pc EXCEPT ![p] = "commit"]
                    /\ UNCHANGED cur
            /\ UNCHANGED <<disk, conn, status, rows, acked, outcomes, okRaw, genVars,
                           decVars>>

\* cur.execute(INSERT ...): sqlite3 opens a transaction, then runs the statement
Insert(p) ==
    /\ pc[p] = "insert"
    /\ inTxn' = [inTxn EXCEPT ![p] = TRUE]
    /\ IF ~WriteLockFree(p)
       THEN \* OperationalError: database is locked
            /\ ShowError(p, "OperationalError")
            /\ pc' = [pc EXCEPT ![p] = "idle"]
            /\ cur' = [cur EXCEPT ![p] = NoJob]
            /\ outcomes' = [outcomes EXCEPT ![p] = outcomes[p] + 1]
            /\ UNCHANGED <<disk, lock, pend, snap, conn, rows, acked, okRaw, genVars,
                           decVars>>
       ELSE /\ lock' = p
            /\ snap' = [snap EXCEPT ![p] = Len(disk)]
            /\ IF UniqueViolation(p, cur[p].data)
               THEN \* sqlite3.IntegrityError: return "DUP"
                    /\ cur' = [cur EXCEPT ![p].res = "DUP"]
                    /\ pc' = [pc EXCEPT ![p] = "ack"]
                    /\ UNCHANGED pend
               ELSE /\ pend' = [pend EXCEPT ![p] = Append(pend[p], cur[p].data)]
                    /\ pc' = [pc EXCEPT ![p] = "commit"]
                    /\ UNCHANGED cur
            /\ UNCHANGED <<disk, conn, status, rows, acked, outcomes, okRaw, genVars,
                           decVars>>

\* variant: save_scan returns "OK" without conn.commit()
CommitMissing(p) ==
    /\ pc[p] = "commit"
    /\ cur' = [cur EXCEPT ![p].res = "OK"]
    /\ pc' = [pc EXCEPT ![p] = "ack"]
    /\ UNCHANGED <<storeVars, status, rows, acked, outcomes, okRaw, genVars, decVars>>

\* conn.commit()
Commit(p) ==
    /\ pc[p] = "commit"
    /\ disk' = disk \o pend[p]
    /\ pend' = [pend EXCEPT ![p] = <<>>]
    /\ lock' = NoProc
    /\ inTxn' = [inTxn EXCEPT ![p] = FALSE]
    /\ snap' = [snap EXCEPT ![p] = NoSnap]
    /\ cur' = [cur EXCEPT ![p].res = "OK"]
    /\ pc' = [pc EXCEPT ![p] = "ack"]
    /\ UNCHANGED <<conn, status, rows, acked, outcomes, okRaw, genVars, decVars>>

\* save_scan returns "OK" or "DUP"; on_scan_return shows the message and
\* calls refresh_table()
Ack(p) ==
    /\ pc[p] = "ack"
    /\ status' = [status EXCEPT ![p] =
                    Outcome(cur[p].res, "", Key(cur[p].data), cur[p].n0, Len(disk),
                            cur[p].fresh, cur[p].again, cur[p].base)]
    /\ outcomes' = [outcomes EXCEPT ![p] = outcomes[p] + 1]
    /\ acked' = IF cur[p].res = "OK" THEN Append(acked, cur[p].data) ELSE acked
    /\ okRaw' = IF cur[p].res = "OK" THEN okRaw \cup {cur[p].raw} ELSE okRaw
    /\ rows' = [rows EXCEPT ![p] = Fetched(p, DefaultLimit)]
    /\ snap' = [snap EXCEPT ![p] = SnapAfterRead(p)]
    /\ pc' = [pc EXCEPT ![p] = "idle"]
    /\ cur' = [cur EXCEPT ![p] = NoJob]
    /\ UNCHANGED <<disk, lock, pend, inTxn, conn, genVars, decVars>>

\* refresh_table(limit), from the buttons of the "Registros" tab
Refresh(p, limit) ==
    /\ pc[p] = "idle"
    /\ rows' = [rows EXCEPT ![p] = Fetched(p, limit)]
    /\ snap' = [snap EXCEPT ![p] = SnapAfterRead(p)]
    /\ UNCHANGED <<disk, lock, pend, inTxn, conn, pc, cur, status, acked, outcomes,
                   okRaw, genVars, decVars>>

\* the process dies: its open transaction is lost, committed rows stay
Crash(p) ==
    /\ pc[p] \notin Stopped
    /\ pc' = [pc EXCEPT ![p] = "down"]
    /\ pend' = [pend EXCEPT ![p] = <<>>]
    /\ lock' = IF lock = p THEN NoProc ELSE lock
    /\ inTxn' = [inTxn EXCEPT ![p] = FALSE]
    /\ snap' = [snap EXCEPT ![p] = NoSnap]
    /\ cur' = [cur EXCEPT ![p] = NoJob]
    /\ status' = [status EXCEPT ![p] = Ready]
    /\ rows' = [rows EXCEPT ![p] = NoRows]
    /\ outcomes' = [outcomes EXCEPT ![p] = NoEvent]
    /\ UNCHANGED <<disk, conn, acked, okRaw, genVars, decVars>>

\* on_close: conn_db.close() drops what was not committed, then root.destroy()
Close(p) ==
    /\ pc[p] = "idle"
    /\ conn' = [conn EXCEPT ![p] = "closed"]
    /\ pc' = [pc EXCEPT ![p] = "exited"]
    /\ pend' = [pend EXCEPT ![p] = <<>>]
    /\ lock' = IF lock = p THEN NoProc ELSE lock
    /\ inTxn' = [inTxn EXCEPT ![p] = FALSE]
    /\ snap' = [snap EXCEPT ![p] = NoSnap]
    /\ cur' = [cur EXCEPT ![p] = NoJob]
    /\ status' = [status EXCEPT ![p] = Ready]
    /\ rows' = [rows EXCEPT ![p] = NoRows]
    /\ outcomes' = [outcomes EXCEPT ![p] = NoEvent]
    /\ UNCHANGED <<disk, acked, okRaw, genVars, decVars>>

\* the program starts, init_db() opens the connection, and obtener_productos()
\* raises: the module stops there, before any handler is installed
StartFail(p) ==
    /\ pc[p] \in Stopped
    /\ conn' = [conn EXCEPT ![p] = "open"]
    /\ pc' = [pc EXCEPT ![p] = "failed"]
    /\ UNCHANGED <<disk, lock, pend, inTxn, snap, cur, status, rows, acked, outcomes,
                   okRaw, genVars, decVars>>

\* variant: init_db drops and recreates pallet_scans
StartRecreatesTable(p) ==
    /\ pc[p] \in Stopped
    /\ lock = NoProc
    /\ disk' = <<>>
    /\ conn' = [conn EXCEPT ![p] = "open"]
    /\ pc' = [pc EXCEPT ![p] = "idle"]
    /\ rows' = [rows EXCEPT ![p] = NoRows]
    /\ UNCHANGED <<lock, pend, inTxn, snap, cur, status, acked, outcomes, okRaw, genVars,
                   decVars>>

\* the program starts: init_db(), obtener_productos(), the window, then the
\* first refresh_table()
Start(p) ==
    /\ pc[p] \in Stopped
    /\ conn' = [conn EXCEPT ![p] = "open"]
    /\ pc' = [pc EXCEPT ![p] = "idle"]
    /\ rows' = [rows EXCEPT ![p] = Fetched(p, DefaultLimit)]
    /\ UNCHANGED <<disk, lock, pend, inTxn, snap, cur, status, acked, outcomes, okRaw,
                   genVars, decVars>>

ProcNext(p, inputs, limits) ==
    \/ \E r \in inputs : Scan(p, r)
    \/ Insert(p)
    \/ Commit(p)
    \/ Ack(p)
    \/ \E limit \in limits : Refresh(p, limit)
    \/ Crash(p)
    \/ Close(p)
    \/ Start(p)
    \/ StartFail(p)

\* the program of main.py: one process, one connection
Next == ProcNext(MainProc, ScanInputs, Limits)

Spec == Init /\ [][Next]_vars

\* several instances of the program on the same database file
NextConc == \E p \in Procs : ProcNext(p, ConcInputs(p), {DefaultLimit})

SpecConc == Init /\ [][NextConc]_vars

\* the program fed with the labels of IdentityInputs
NextIdentity == ProcNext(MainProc, IdentityInputs, {DefaultLimit})

SpecIdentity == Init /\ [][NextIdentity]_vars

(***************************************************************************)
(* The decoder on its own                                                  *)
(***************************************************************************)

InitDecode ==
    /\ InitStore
    /\ InitGen
    /\ decSrc \in PrimarySources \cup {NoSource}
    /\ decRaw \in (IF decSrc = NoSource THEN OtherInputs ELSE {PrimaryText(decSrc)})
    /\ decOut = NotDecoded

Decode ==
    /\ decOut = NotDecoded
    /\ decOut' = parse_qr_payload(decRaw)
    /\ UNCHANGED <<storeVars, uiVars, genVars, decSrc, decRaw>>

NextDecode == Decode

SpecDecode == InitDecode /\ [][NextDecode]_vars

(***************************************************************************)
(* The label generator                                                     *)
(***************************************************************************)

\* one label of a run: the fields the generator wrote and the QR payload
Label(i, nro_serie, dt) ==
    LET desc_clean == DescClean(Products[i].descripcion)
        fec_iso == FecIso(dt)
        vto_iso == FecIso(PlusSixMonths(dt))
        numero_lote == NumeroLote(dt)
    IN [fields |-> ScanData(desc_clean, nro_serie, Products[i].id, numero_lote,
                            fec_iso, vto_iso),
        payload |-> payload_qr(nro_serie, Products[i].id, desc_clean, numero_lote,
                               fec_iso, vto_iso)]

\* issued after c.save() wrote a PDF with the serials first..last of product i
IssuedAfter(i, first, last) ==
    [issued EXCEPT ![i] =
        [s \in 1..MaxSerial |->
            IF s >= first /\ s <= last /\ issued[i][s] < 2
            THEN issued[i][s] + 1 ELSE issued[i][s]]]

\* generar_y_imprimir_qrs runs to the end: cantidad labels, then the counter is saved
GenRun(i, cantidad, dt) ==
    /\ ultimo[i] + cantidad <= MaxSerial
    /\ labels' = [j \in 1..cantidad |-> Label(i, ultimo[i] + j, dt)]
    /\ issued' = IssuedAfter(i, ultimo[i] + 1, ultimo[i] + cantidad)
    /\ ultimo' = [ultimo EXCEPT ![i] = ultimo[i] + cantidad]
    /\ UNCHANGED <<storeVars, uiVars, decVars>>

\* generar_y_imprimir_qrs gets as far as c.save(), then guardar_productos
\* raises or the process dies: the PDF is written, the counter is not saved
GenRunCounterNotSaved(i, cantidad, dt) ==
    /\ ultimo[i] + cantidad <= MaxSerial
    /\ labels' = [j \in 1..cantidad |-> Label(i, ultimo[i] + j, dt)]
    /\ issued' = IssuedAfter(i, ultimo[i] + 1, ultimo[i] + cantidad)
    /\ UNCHANGED <<ultimo, storeVars, uiVars, decVars>>

\* the save dialog is cancelled: return before anything is written
GenCancel(i, cantidad) ==
    /\ ultimo[i] + cantidad <= MaxSerial
    /\ UNCHANGED vars

NextGen ==
    \E i \in 1..Len(Products), cantidad \in 1..MaxCantidad :
        \/ \E dt \in Dates : GenRun(i, cantidad, dt)
        \/ GenCancel(i, cantidad)

SpecGen == Init /\ [][NextGen]_vars

\* the generator used for the first product only, with runs that end between
\* c.save() and guardar_productos
NextGenFault ==
    \E cantidad \in 1..MaxCantidad :
        \/ \E dt \in Dates : GenRun(1, cantidad, dt)
        \/ \E dt \in Dates : GenRunCounterNotSaved(1, cantidad, dt)
        \/ GenCancel(1, cantidad)

SpecGenFault == Init /\ [][NextGenFault]_vars

(***************************************************************************)
(* Properties                                                              *)
(***************************************************************************)

\* C1: no two stored rows share (id_producto, nro_serie, lote), and a
\* submission is answered "OK" only if its triple was not stored when it was
\* made, whatever its descripcion, creacion and vencimiento are.
C1_UniqueTriple ==
    /\ \A i, j \in 1..Len(disk) : Key(disk[i]) = Key(disk[j]) => i = j
    /\ \A p \in Procs : status[p].state = "OK" => status[p].fresh

\* a submission was answered "DUP" although its descripcion differs from the
\* stored row of the same triple
C1_Witness ==
    /\ pc[MainProc] = "ack"
    /\ cur[MainProc].res = "DUP"
    /\ \E i \in 1..Len(disk) :
          /\ Key(disk[i]) = Key(cur[MainProc].data)
          /\ disk[i].descripcion # cur[MainProc].data.descripcion

\* C2: a submission whose triple is not stored is answered "OK" and adds one
\* row; the submission of the same triple right after it is answered "DUP",
\* and the row count is then one more than before the first.
C2_Idempotent ==
    \A p \in Procs :
        /\ (status[p].state # "READY" /\ status[p].fresh)
              => (status[p].state = "OK" /\ status[p].n1 = status[p].n0 + 1)
        /\ status[p].again
              => (status[p].state = "DUP" /\ status[p].n1 = status[p].base + 1)

\* the second of two submissions of one triple has been answered
C2_Witness ==
    /\ status[MainProc].again
    /\ status[MainProc].state = "DUP"
    /\ Len(disk) = status[MainProc].base + 1

\* C3: with several connections submitting the same triple, at most one has
\* its row written, at most one is answered "OK", and the table holds at most
\* one row of the triple.
C3_AtomicInsert ==
    /\ \A p, q \in Procs :
          (p # q /\ pend[p] # <<>> /\ pend[q] # <<>>) => Keys(pend[p]) \cap Keys(pend[q]) = {}
    /\ \A i, j \in 1..Len(acked) : Key(acked[i]) = Key(acked[j]) => i = j
    /\ \A k \in Keys(disk) : Cardinality({i \in 1..Len(disk) : Key(disk[i]) = k}) = 1
    /\ \A p \in Procs : pend[p] # <<>> => Keys(pend[p]) \cap Keys(disk) = {}

\* two connections are inside save_scan with the same triple, one has written
\* its row and not yet committed
C3_Witness ==
    \E p, q \in Procs :
        /\ p # q
        /\ pc[p] = "commit"
        /\ pc[q] = "insert"
        /\ Key(cur[p].data) = Key(cur[q].data)

\* C4: every record that was answered "OK" is among the committed rows, in
\* every later state, also after the process died and started again.
C4_Durable == \A i \in 1..Len(acked) : acked[i] \in Range(disk)

\* the program was started again after an "OK" and read the record back
C4_Witness ==
    /\ acked # <<>>
    /\ pc[MainProc] = "idle"
    /\ status[MainProc] = Ready
    /\ acked[1] \in Range(rows[MainProc].recs)

\* rs is the newest-first list of the last limit rows of d
IsRecent(rs, limit, d) ==
    /\ Len(rs) = (IF limit < Len(d) THEN limit ELSE Len(d))
    /\ \A i \in 1..Len(rs) : rs[i] = d[Len(d) + 1 - i]

\* C5: whenever the program waits for the next event, the rows it last got
\* from fetch_latest_scans(limit) are min(limit, N) rows, the last ones
\* inserted, newest first.
C5_Recent ==
    pc[MainProc] = "idle"
        => IsRecent(rows[MainProc].recs, rows[MainProc].limit, disk)

\* a query with limit 2 was answered while three rows were stored
C5_Witness ==
    /\ pc[MainProc] = "idle"
    /\ Len(disk) = 3
    /\ rows[MainProc].limit = 2
    /\ rows[MainProc].recs = <<disk[3], disk[2]>>

\* C6: a submission whose text does not decode ends in the error message
\* without touching the connection, the table or the displayed rows.
C6_MalformedNoStore ==
    [][\A p \in Procs : \A r \in ScanInputs :
          (Scan(p, r) /\ Strip(r) # <<>> /\ Parsed[r].kind # "OK")
             => /\ UNCHANGED <<disk, lock, pend, inTxn, snap, rows, acked>>
                /\ pc'[p] = "idle"
                /\ status'[p].state = "ERROR"
                /\ status'[p].kind = Parsed[r].kind]_vars

\* a text that does not decode was submitted while rows were stored and the
\* displayed list was cut to one row
C6_Witness ==
    /\ status[MainProc].state = "ERROR"
    /\ status[MainProc].kind = "MissingFields"
    /\ Len(disk) >= 2
    /\ Len(rows[MainProc].recs) = 1

\* C7: the decoder answers with six populated fields or with one of the four
\* named failures.
C7_DecoderExhaustive ==
    /\ decOut.kind \in {"", "OK", "UnrecognizedFormat", "MissingFields",
                        "InvalidSerial", "LegacyFieldsMissing"}
    /\ decOut.kind = "OK" =>
          /\ decOut.data.descripcion # <<>>
          /\ decOut.data.id_producto # <<>>
          /\ decOut.data.lote # <<>>
          /\ decOut.data.creacion # <<>>
          /\ decOut.data.vencimiento # <<>>

\* C8: a stored row is never changed or removed.
C8_AppendOnly ==
    [][/\ Len(disk') >= Len(disk)
       /\ \A i \in 1..Len(disk) : disk'[i] = disk[i]]_vars

\* a submission was answered "DUP" although its dates differ from the stored
\* row of the same triple, which is still there
C8_Witness ==
    /\ pc[MainProc] = "ack"
    /\ cur[MainProc].res = "DUP"
    /\ \E i \in 1..Len(disk) :
          /\ Key(disk[i]) = Key(cur[MainProc].data)
          /\ disk[i].creacion # cur[MainProc].data.creacion
          /\ disk[i] \in Range(acked)

\* C9: no stored row has a negative nro_serie.
C9_NonNegativeSerial == \A i \in 1..Len(disk) : disk[i].nro_serie >= 0

\* C10: every payload the generator wrote decodes to the fields the generator
\* put into it.
C10_RoundTrip ==
    \A j \in 1..Len(labels) :
        LET r == parse_qr_payload(labels[j].payload)
        IN r.kind = "OK" /\ r.data = labels[j].fields

\* the format the selection rule gives a text: both "|" and "=", else a line
\* break, else none
FormatOf(s) ==
    IF Contains(s, "|") /\ Contains(s, "=") THEN "primary"
    ELSE IF Contains(s, "\n") THEN "legacy"
    ELSE "none"

\* what the branch of each format can answer
KindsOf(f) ==
    CASE f = "primary" -> {"OK", "MissingFields", "InvalidSerial"}
      [] f = "legacy" -> {"OK", "LegacyFieldsMissing", "InvalidSerial", "IndexError"}
      [] OTHER -> {"UnrecognizedFormat"}

\* C11: the format is selected on the text with its surrounding whitespace
\* removed: both "|" and "=" give the key=value branch, else a line break
\* gives the old-label branch, else the answer is UnrecognizedFormat; a text
\* with an inner line break that lacks "|" or "=" is never answered
\* UnrecognizedFormat.
C11_FormatSelection ==
    decOut # NotDecoded => decOut.kind \in KindsOf(FormatOf(Strip(decRaw)))

\* a text with "|", a line break and no "=" went to the old-label branch
C11_Witness ==
    /\ decOut.kind = "LegacyFieldsMissing"
    /\ Contains(decRaw, "|")
    /\ Contains(Strip(decRaw), "\n")

\* C11 as stated: the format is selected on the text as it was handed in, so
\* that every text with a line break that lacks "|" or "=" goes to the
\* old-label branch and is never answered UnrecognizedFormat.
C11_FormatOnRaw ==
    decOut # NotDecoded => decOut.kind \in KindsOf(FormatOf(decRaw))

\* the required keys a put-together text gives no value: left out, or empty
\* once trimmed
Lacking(opts) ==
    {i \in 1..Len(required) : ~opts[i].has \/ Strip(opts[i].v) = <<>>}

\* position of key k in required
KeyIndex(k) == CHOOSE i \in 1..Len(required) : required[i] = k

\* C12: a key=value text in which some required key is left out or has an
\* empty value once trimmed is answered MissingFields with exactly those
\* keys, in the order NS, PRD, DSC, LOT, FEC, VTO whatever the order of the
\* segments, also when the NS value is no integer; a text that gives all six
\* a value is not answered MissingFields.
C12_MissingFields ==
    (decOut # NotDecoded /\ decSrc # NoSource
        /\ FormatOf(Strip(decRaw)) = "primary")
    => LET lack == Lacking(decSrc.opts)
           m == decOut.missing
       IN IF lack = {}
          THEN decOut.kind \in {"OK", "InvalidSerial"}
          ELSE /\ decOut.kind = "MissingFields"
               /\ Range(m) = {required[i] : i \in lack}
               /\ Len(m) = Cardinality(lack)
               /\ \A a, b \in 1..Len(m) : a < b => KeyIndex(m[a]) < KeyIndex(m[b])

\* segments written from VTO back to NS, NS= with an empty value and a
\* blank PRD and no FEC: the answer names NS, PRD, FEC in that order
C12_Witness ==
    /\ decSrc.order = <<6, 5, 4, 3, 2, 1>>
    /\ decSrc.opts[1] = Val(<<>>)
    /\ decOut.kind = "MissingFields"
    /\ decOut.missing = <<kNS, kPRD, kFEC>>

\* the arrangements of six segments
Permutations6 ==
    {f \in [1..Len(required) -> 1..Len(required)] :
        \A i, j \in 1..Len(required) : f[i] = f[j] => i = j}

\* every key is there once with a value, and the NS value is an integer
WellFormed(opts) ==
    /\ \A i \in 1..Len(required) : opts[i].has /\ Strip(opts[i].v) # <<>>
    /\ IntOk(Strip(opts[1].v))

\* C13: a key=value text with each key once, a value for each and an integer
\* NS decodes to six fields, and every arrangement of its six segments
\* decodes to the same six fields.
C13_OrderIndependent ==
    (decOut # NotDecoded /\ decSrc # NoSource /\ WellFormed(decSrc.opts))
    => /\ decOut.kind = "OK"
       /\ \A o \in Permutations6 :
             parse_qr_payload(PrimaryText([opts |-> decSrc.opts, order |-> o])) = decOut

\* a text written in the order DSC, NS, VTO, PRD, FEC, LOT was decoded
C13_Witness ==
    /\ decSrc.order = <<3, 1, 6, 2, 5, 4>>
    /\ WellFormed(decSrc.opts)
    /\ decOut.kind = "OK"
    /\ decOut.data = ScanData(tBolsa, 1, <<"1","2">>, tLote, tFec, tVto)

\* C14: when the program has ended, by on_close or by an exception while
\* it was starting, its database connection has been closed.
C14_ConnReleased ==
    \A p \in Procs : pc[p] \in {"exited", "failed"} => conn[p] = "closed"

\* C15: when the INSERT fails for another reason than the UNIQUE index, the
\* submission is answered with the error message and with neither "OK" nor
\* "DUP", the process goes back to waiting for the next submission, and the
\* committed rows and the records answered "OK" are as before.
C15_FaultSurfaced ==
    [][\A p \in Procs :
          (Insert(p) /\ ~WriteLockFree(p))
             => /\ status'[p].state = "ERROR"
                /\ status'[p].kind = "OperationalError"
                /\ outcomes'[p] = 1
                /\ pc'[p] = "idle"
                /\ disk' = disk
                /\ acked' = acked]_vars

\* after the error message for a failed INSERT, the same process has taken
\* the next submission and written its row, while every record answered
\* "OK" before is still stored
C15_Witness ==
    \E p \in Procs :
        /\ status[p].state = "ERROR"
        /\ status[p].kind = "OperationalError"
        /\ pc[p] = "commit"
        /\ acked # <<>>
        /\ \A i \in 1..Len(acked) : acked[i] \in Range(disk)

\* C16: every submission, the empty and the blank one included, is answered
\* with exactly one message, and the empty or blank one with the error
\* UnrecognizedFormat.
C16_EveryScanAnswered ==
    [][\A p \in Procs :
          /\ pc'[p] = "idle" => outcomes'[p] \in {NoEvent, 1}
          /\ \A r \in ScanInputs :
                (Scan(p, r) /\ Strip(r) = <<>>)
                   => /\ status'[p].state = "ERROR"
                      /\ status'[p].kind = "UnrecognizedFormat"]_vars

\* C17: whenever save_scan has returned and the program waits for the next
\* event, the connection has no open transaction.
C17_NoOpenTransaction ==
    \A p \in Procs : pc[p] \in {"ack", "idle"} => ~inTxn[p]

\* the values each key=value text gives its keys, as written
TextFields == [r \in IdentityInputs |-> BuildData(Split(Strip(r), "|"), <<>>)]

\* two key=value texts name one label: PRD and LOT are the same texts and
\* the NS texts denote the same integer
SameLabel(r1, r2) ==
    LET a == TextFields[r1]
        b == TextFields[r2]
    IN /\ a[kPRD] = b[kPRD]
       /\ a[kLOT] = b[kLOT]
       /\ IntValue(a[kNS]) = IntValue(b[kNS])

\* row is a stored row of the label that text r names
RowOfLabel(r, row) ==
    LET a == TextFields[r]
    IN /\ row.id_producto = a[kPRD]
       /\ row.lote = a[kLOT]
       /\ row.nro_serie = IntValue(a[kNS])

\* C18: labels are told apart by the integer the NS text denotes and by the
\* PRD and LOT texts as written: of the texts answered "OK" no two name one
\* label, a text is answered "DUP" only when a row of its label is stored,
\* and a text is answered "OK" only when no text of its label was before.
C18_NumericIdentity ==
    /\ \A r1, r2 \in okRaw : SameLabel(r1, r2) => r1 = r2
    /\ \A p \in Procs :
          /\ (pc[p] = "ack" /\ cur[p].res = "DUP")
                => \E i \in 1..Len(disk) : RowOfLabel(cur[p].raw, disk[i])
          /\ (pc[p] = "ack" /\ cur[p].res = "OK")
                => \A r \in okRaw : ~SameLabel(r, cur[p].raw)

\* NS=000001 with PRD=12 and the same label with PRD=012 were both answered
\* "OK", and NS=1 with PRD=12 is being answered "DUP"
C18_Witness ==
    /\ {inFirst, inOtherPrd} \subseteq okRaw
    /\ pc[MainProc] = "ack"
    /\ cur[MainProc].raw = inSameKey
    /\ cur[MainProc].res = "DUP"

\* C19: a run that completes from counter c with quantity n writes the
\* serials c+1..c+n, each once, and saves c+n; a run cancelled at the save
\* dialog writes none and leaves the counter; and no serial of a product is
\* ever written into more than one PDF.
C19_SerialsOnce ==
    [][/\ \A i \in 1..Len(Products), cantidad \in 1..MaxCantidad, dt \in Dates :
             GenRun(i, cantidad, dt)
                => /\ Len(labels') = cantidad
                   /\ \A j \in 1..cantidad :
                         labels'[j].fields.nro_serie = ultimo[i] + j
                   /\ ultimo'[i] = ultimo[i] + cantidad
       /\ \A i \in 1..Len(Products), cantidad \in 1..MaxCantidad :
             GenCancel(i, cantidad) => UNCHANGED <<ultimo, labels, issued>>
       /\ \A i \in 1..Len(Products), s \in 1..MaxSerial : issued'[i][s] <= 1]_vars

====
